---------------------------- MODULE Spec2Model ----------------------------
(***************************************************************************)
(* Blackjack trainer: the hand value model (src/src/App.jsx and            *)
(* src/src/blackjackLogic.js), the basic-strategy engine getOptimalAction  *)
(* (src/src/App.jsx), the pure round resolver resolveBlackjackRound         *)
(* (src/src/blackjackLogic.js) and the interactive game of the App         *)
(* component (src/src/App.jsx): its React state, its click handlers, its   *)
(* two timers and its decision recorder.                                   *)
(*                                                                         *)
(* Money is counted in half dollars, so that the 2.5 x bet blackjack       *)
(* payout of a whole-dollar bet is an integer: a bet of $25 is 50.         *)
(***************************************************************************)
EXTENDS Integers, Sequences, FiniteSets, TLC

VARIABLES
    pc,                       \* position of the call being modelled
    hand,                     \* argument of the hand value functions / playerHand of getOptimalAction
    dealerUpCard,             \* getOptimalAction: dealerUpCard
    canDouble,                \* getOptimalAction: canDouble
    canSplit,                 \* getOptimalAction: canSplit
    canSurrender,             \* getOptimalAction: canSurrender
    ret,                      \* value(s) returned by the call
    playerHands,              \* resolveBlackjackRound: playerHands; App: playerHands
    dealerHand,               \* resolveBlackjackRound: dealerHand; App: dealerHand
    bankroll,                 \* resolveBlackjackRound: bankroll; App: bankroll
    handBets,                 \* resolveBlackjackRound: handBets; App: handBets
    dealerHitsSoft17,         \* resolveBlackjackRound: dealerHitsSoft17; App: dealerHitsSoft17
    considerNaturalBlackjack, \* resolveBlackjackRound: considerNaturalBlackjack
    dealerIdx,                \* resolveBlackjackRound: let dealerIdx
    dealerShown,              \* resolveBlackjackRound: let dealerShown
    dVal,                     \* resolveBlackjackRound: let dVal
    gameState,                \* App: gameState ('betting', 'playing', 'finished')
    currentHandIndex,         \* App: currentHandIndex (counted from 0)
    handsToPlay,              \* App: handsToPlay
    currentBet,               \* App: currentBet
    surrenderAllowed,         \* App: surrenderAllowed
    insuranceOffered,         \* App: insuranceOffered
    deck,                     \* App: deck, as the number of cards left in it
    shuffled,                 \* the order createDeck's shuffle pops the cards in, as far as revealed
    timers,                   \* the setTimeout callbacks not yet run, oldest first
    decisionHistory,          \* App: decisionHistory
    scenarioStats,            \* App: scenarioStats
    roundNo,                  \* number of rounds dealt so far
    settlements               \* the updateStats calls so far: which hand of which round, and how

argVars == <<hand, dealerUpCard, canDouble, canSplit, canSurrender>>
roundVars == <<playerHands, dealerHand, bankroll, handBets, dealerHitsSoft17,
               considerNaturalBlackjack, dealerIdx, dealerShown, dVal>>
gameVars == <<gameState, currentHandIndex, handsToPlay, currentBet, surrenderAllowed,
              insuranceOffered, deck, shuffled, timers, decisionHistory, scenarioStats,
              roundNo, settlements>>
vars == <<pc, ret, argVars, roundVars, gameVars>>

(***************************************************************************)
(* Bounds of the model.                                                    *)
(***************************************************************************)
\* longest hand handed to the hand value functions
MaxValueLen == 3
\* longest player hand handed to getOptimalAction
MaxStratLen == 3
\* most cards supplied after the dealer's first two (dealerHand[2..])
MaxSupply == 2
\* most player hands in one resolveBlackjackRound call
MaxPlayerHands == 2
\* most rounds dealt in one run of the game
MaxRounds == 1
\* most timers pending at once in the game
MaxTimers == 1
\* most decisions recorded in one run of the game
MaxDecisions == 5
\* most recordDecision calls made on the recorder alone
MaxCalls == 2
\* most player hands a round of the game is split into
MaxSplitHands == 3

(***************************************************************************)
(* Cards.  createDeck gives every card its blackjack value: Ace 11, face   *)
(* cards 10, number cards their number.                                    *)
(***************************************************************************)
ranks == <<"A", "2", "3", "4", "5", "6", "7", "8", "9", "10", "J", "Q", "K">>

Ranks == {ranks[i] : i \in 1..Len(ranks)}

parseInt(rank) ==
    CASE rank = "2" -> 2 [] rank = "3" -> 3 [] rank = "4" -> 4
      [] rank = "5" -> 5 [] rank = "6" -> 6 [] rank = "7" -> 7
      [] rank = "8" -> 8 [] rank = "9" -> 9 [] rank = "10" -> 10

cardValue(rank) ==
    IF rank = "A" THEN 11
    ELSE IF rank \in {"J", "Q", "K"} THEN 10
    ELSE parseInt(rank)

Card(rank) == [rank |-> rank, value |-> cardValue(rank)]

Cards == {Card(r) : r \in Ranks}

\* a card argument that is null or undefined (dealerHand[0] of an empty
\* hand): a value that is no card
nullCard == [rank |-> "null", value |-> 0]

\* a hand argument that is null: a value that is no hand of cards
nullHand == <<nullCard>>

\* every hand of at most n cards drawn from the card set cs
HandsOf(cs, n) == UNION {[1..k -> cs] : k \in 0..n}

(***************************************************************************)
(* Hand value model.                                                       *)
(***************************************************************************)
\* faulty variant: a single Ace is converted from 11 to 1 (if instead of while)
calculateHandValueOneAce(h) ==
    LET RECURSIVE sum(_)
        sum(s) == IF s = <<>> THEN 0 ELSE s[1].value + sum(Tail(s))
        aces == Cardinality({i \in 1..Len(h) : h[i].rank = "A"})
    IN  IF sum(h) > 21 /\ aces > 0 THEN sum(h) - 10 ELSE sum(h)

\* App.jsx calculateHandValue.  The cards' values are numbers, so the
\* isNaN guard never fires.
calculateHandValue(h) ==
    LET RECURSIVE loop(_, _, _)
        \* for (card of hand) { value += card.value; if (card.rank === 'A') aces++ }
        loop(s, value, aces) ==
            IF s = <<>> THEN <<value, aces>>
            ELSE loop(Tail(s), value + s[1].value,
                      IF s[1].rank = "A" THEN aces + 1 ELSE aces)
        RECURSIVE reduce(_, _)
        \* while (value > 21 && aces > 0) { value -= 10; aces-- }
        reduce(value, aces) ==
            IF value > 21 /\ aces > 0 THEN reduce(value - 10, aces - 1) ELSE value
        va == loop(h, 0, 0)
    IN  reduce(va[1], va[2])

\* blackjackLogic.js calcValue
calcValue(h) ==
    LET RECURSIVE loop(_, _, _)
        loop(s, value, aces) ==
            IF s = <<>> THEN <<value, aces>>
            ELSE loop(Tail(s), value + s[1].value,
                      IF s[1].rank = "A" THEN aces + 1 ELSE aces)
        RECURSIVE reduce(_, _)
        reduce(value, aces) ==
            IF value > 21 /\ aces > 0 THEN reduce(value - 10, aces - 1) ELSE value
        va == loop(h, 0, 0)
    IN  reduce(va[1], va[2])

\* App.jsx isSoftHand: hasAce && value <= 21 && hand.some(card => card.rank === 'A'),
\* value being the sum of the nominal card values (every Ace 11)
isSoftHand(h) ==
    LET RECURSIVE loop(_, _, _)
        \* for (card of hand) { value += card.value; if (card.rank === 'A') hasAce = true }
        loop(s, value, hasAce) ==
            IF s = <<>> THEN <<value, hasAce>>
            ELSE loop(Tail(s), value + s[1].value, hasAce \/ s[1].rank = "A")
        vh == loop(h, 0, FALSE)
    IN  vh[2] /\ vh[1] <= 21 /\ (\E i \in 1..Len(h) : h[i].rank = "A")

\* blackjackLogic.js isSoft: aces > 0 && base + 10 <= 21
isSoft(h) ==
    LET RECURSIVE loop(_, _, _)
        \* Aces count 1 (and are counted), every other card its value
        loop(s, base, aces) ==
            IF s = <<>> THEN <<base, aces>>
            ELSE IF s[1].rank = "A" THEN loop(Tail(s), base + 1, aces + 1)
            ELSE loop(Tail(s), base + s[1].value, aces)
        ba == loop(h, 0, 0)
    IN  ba[2] > 0 /\ ba[1] + 10 <= 21

\* blackjackLogic.js isBlackjack
isBlackjack(h) == Len(h) = 2 /\ calcValue(h) = 21

(***************************************************************************)
(* Strategy decision engine.                                               *)
(***************************************************************************)
\* faulty variant: 9s are split against an Ace too
splitsPairNinesVsAce(rank, dealerValue) ==
    \/ rank \in {"A", "8"}
    \/ rank = "9" /\ dealerValue \notin {7, 10}
    \/ rank = "7" /\ dealerValue <= 7
    \/ rank = "6" /\ dealerValue <= 6
    \/ rank \in {"2", "3"} /\ dealerValue <= 7
    \/ rank = "4" /\ dealerValue \in {5, 6}

\* getOptimalAction, PAIR SPLITTING STRATEGY: the ranks and dealer values
\* for which the block returns 'split'
splitsPair(rank, dealerValue) ==
    \/ rank = "A" \/ rank = "8"
    \/ rank = "9" /\ dealerValue \notin {7, 10, 11}
    \/ rank = "7" /\ dealerValue <= 7
    \/ rank = "6" /\ dealerValue <= 6
    \/ rank \in {"2", "3"} /\ dealerValue <= 7
    \/ rank = "4" /\ dealerValue \in {5, 6}

\* faulty variant: soft 18 is doubled whether or not doubling is permitted
softStrategyDoubleUnchecked(playerValue, dealerValue, cDouble) ==
    IF playerValue >= 19 THEN "stand"
    ELSE IF playerValue = 18 THEN
        IF dealerValue \in {3, 4, 5, 6} THEN "double"
        ELSE IF dealerValue >= 9 THEN "hit"
        ELSE "stand"
    ELSE IF playerValue >= 17 /\ cDouble /\ dealerValue \in {3, 4, 5, 6} THEN "double"
    ELSE IF playerValue >= 15 /\ cDouble /\ dealerValue \in {4, 5, 6} THEN "double"
    ELSE IF playerValue >= 13 /\ cDouble /\ dealerValue \in {5, 6} THEN "double"
    ELSE "hit"

\* getOptimalAction, SOFT HAND STRATEGY (the block under if (isSoft))
softStrategy(playerValue, dealerValue, cDouble) ==
    IF playerValue >= 19 THEN "stand"
    ELSE IF playerValue = 18 THEN
        IF cDouble /\ dealerValue \in {3, 4, 5, 6} THEN "double"
        ELSE IF dealerValue >= 9 THEN "hit"
        ELSE "stand"
    ELSE IF playerValue >= 17 /\ cDouble /\ dealerValue \in {3, 4, 5, 6} THEN "double"
    ELSE IF playerValue >= 15 /\ cDouble /\ dealerValue \in {4, 5, 6} THEN "double"
    ELSE IF playerValue >= 13 /\ cDouble /\ dealerValue \in {5, 6} THEN "double"
    ELSE "hit"

\* faulty variant: surrender is offered whatever the number of cards
hardStrategySurrenderAnyLength(playerValue, dealerValue, cDouble, cSurrender, nCards) ==
    IF playerValue >= 17 THEN "stand"
    ELSE IF playerValue >= 13 /\ dealerValue <= 6 THEN "stand"
    ELSE IF playerValue = 12 /\ dealerValue \in {4, 5, 6} THEN "stand"
    ELSE IF playerValue = 11 /\ cDouble THEN "double"
    ELSE IF playerValue = 10 /\ cDouble /\ dealerValue <= 9 THEN "double"
    ELSE IF playerValue = 9 /\ cDouble /\ dealerValue \in {3, 4, 5, 6} THEN "double"
    ELSE IF cSurrender /\ playerValue = 16 /\ dealerValue \in {9, 10, 11}
         THEN "surrender"
    ELSE IF cSurrender /\ playerValue = 15 /\ dealerValue = 10 THEN "surrender"
    ELSE "hit"

\* getOptimalAction, HARD HAND / DOUBLING / SURRENDER STRATEGY and the default
hardStrategy(playerValue, dealerValue, cDouble, cSurrender, nCards) ==
    IF playerValue >= 17 THEN "stand"
    ELSE IF playerValue >= 13 /\ dealerValue <= 6 THEN "stand"
    ELSE IF playerValue = 12 /\ dealerValue \in {4, 5, 6} THEN "stand"
    ELSE IF playerValue = 11 /\ cDouble THEN "double"
    ELSE IF playerValue = 10 /\ cDouble /\ dealerValue <= 9 THEN "double"
    ELSE IF playerValue = 9 /\ cDouble /\ dealerValue \in {3, 4, 5, 6} THEN "double"
    ELSE IF cSurrender /\ nCards = 2 /\ playerValue = 16 /\ dealerValue \in {9, 10, 11}
         THEN "surrender"
    ELSE IF cSurrender /\ nCards = 2 /\ playerValue = 15 /\ dealerValue = 10
         THEN "surrender"
    ELSE "hit"

\* App.jsx getOptimalAction, first return wins
getOptimalAction(playerHand, upCard, cDouble, cSplit, cSurrender) ==
    \* Safety check: !playerHand || !dealerUpCard || playerHand.length === 0
    IF playerHand = nullHand \/ upCard = nullCard \/ Len(playerHand) = 0 THEN "hit"
    ELSE
    LET playerValue == calculateHandValue(playerHand)
        \* dealerUpCard.value === 11 ? (rank === 'A' ? 11 : value) : value
        dealerValue == IF upCard.value = 11
                       THEN (IF upCard.rank = "A" THEN 11 ELSE upCard.value)
                       ELSE upCard.value
        soft == isSoftHand(playerHand)
        isPair == Len(playerHand) = 2 /\ playerHand[1].rank = playerHand[2].rank
    IN  IF isPair /\ cSplit /\ splitsPair(playerHand[1].rank, dealerValue) THEN "split"
        ELSE IF soft THEN softStrategy(playerValue, dealerValue, cDouble)
        ELSE hardStrategy(playerValue, dealerValue, cDouble, cSurrender, Len(playerHand))

(***************************************************************************)
(* Round resolution engine: resolveBlackjackRound.                         *)
(***************************************************************************)
\* resolveBlackjackRound: defaultBet = 25 (dollars)
defaultBet == 50

\* the condition of the dealer's while loop, on dVal and dealerShown
dealerLoopCondition(dv, shown, hitsSoft17) ==
    (dv < 17) \/ (dv = 17 /\ hitsSoft17 /\ isSoft(shown))

\* faulty variant: every hand is given the first hand's bet
betAtFirstHand(bets, i) == IF 1 <= Len(bets) THEN bets[1] ELSE defaultBet

\* handBets[i] ?? defaultBet, i counted from 1
betAt(bets, i) == IF i <= Len(bets) THEN bets[i] ELSE defaultBet

\* faulty variant: a dealer bust is looked at before the player's own bust
settleHandDealerBustFirst(h, bet, dv) ==
    LET pVal == calcValue(h)
    IN  IF dv > 21 THEN [result |-> "win", bet |-> bet, playerValue |-> pVal, payout |-> bet * 2]
        ELSE IF pVal > 21 THEN [result |-> "bust", bet |-> bet, playerValue |-> pVal, payout |-> 0]
        ELSE IF pVal > dv THEN [result |-> "win", bet |-> bet, playerValue |-> pVal, payout |-> bet * 2]
        ELSE IF pVal < dv THEN [result |-> "loss", bet |-> bet, playerValue |-> pVal, payout |-> 0]
        ELSE [result |-> "push", bet |-> bet, playerValue |-> pVal, payout |-> bet]

\* one iteration of the normal resolution loop: the outcome pushed, and
\* (payout) the amount the iteration adds to totalPayout
settleHand(h, bet, dv) ==
    LET pVal == calcValue(h)
    IN  IF pVal > 21 THEN [result |-> "bust", bet |-> bet, playerValue |-> pVal, payout |-> 0]
        ELSE IF dv > 21 THEN [result |-> "win", bet |-> bet, playerValue |-> pVal, payout |-> bet * 2]
        ELSE IF pVal > dv THEN [result |-> "win", bet |-> bet, playerValue |-> pVal, payout |-> bet * 2]
        ELSE IF pVal < dv THEN [result |-> "loss", bet |-> bet, playerValue |-> pVal, payout |-> 0]
        ELSE [result |-> "push", bet |-> bet, playerValue |-> pVal, payout |-> bet]

RECURSIVE sumPayouts(_)
\* totalPayout after the iterations that produced these payouts
sumPayouts(ps) == IF ps = <<>> THEN 0 ELSE ps[1] + sumPayouts(Tail(ps))

\* faulty variant: the bankroll is returned without the clamp at zero
finalBankrollNoClamp(b, totalPayout) == b + totalPayout

\* Math.max(0, bankroll + totalPayout)
finalBankroll(b, totalPayout) ==
    IF b + totalPayout > 0 THEN b + totalPayout ELSE 0

\* the value resolveBlackjackRound returns; payouts lists what each outcome
\* added to totalPayout
roundResult(settled, finalHand) ==
    [kind |-> "round",
     bankroll |-> finalBankroll(bankroll,
                      sumPayouts([i \in 1..Len(settled) |-> settled[i].payout])),
     outcomes |-> [i \in 1..Len(settled) |->
                      [result |-> settled[i].result, bet |-> settled[i].bet,
                       playerValue |-> settled[i].playerValue]],
     payouts |-> [i \in 1..Len(settled) |-> settled[i].payout],
     dealerFinalHand |-> finalHand,
     dealerValue |-> dVal]

NoRet == [kind |-> "none"]

(***************************************************************************)
(* SpecValue: the hand value functions applied to one hand.                *)
(***************************************************************************)
IdleGame ==
    /\ gameState = "betting"
    /\ currentHandIndex = 0
    /\ handsToPlay = 1
    /\ currentBet = 0
    /\ surrenderAllowed = FALSE
    /\ insuranceOffered = FALSE
    /\ deck = 0
    /\ shuffled = <<>>
    /\ timers = <<>>
    /\ decisionHistory = <<>>
    /\ scenarioStats = <<>>
    /\ roundNo = 0
    /\ settlements = <<>>

IdleArgs ==
    /\ dealerUpCard = Card("2")
    /\ canDouble = FALSE
    /\ canSplit = FALSE
    /\ canSurrender = FALSE

IdleRound ==
    /\ IdleGame
    /\ playerHands = <<>>
    /\ dealerHand = <<>>
    /\ bankroll = 0
    /\ handBets = <<>>
    /\ dealerHitsSoft17 = FALSE
    /\ considerNaturalBlackjack = FALSE
    /\ dealerIdx = 0
    /\ dealerShown = <<>>
    /\ dVal = 0

InitValue ==
    /\ pc = "call"
    /\ hand \in HandsOf(Cards, MaxValueLen)
    /\ ret = NoRet
    /\ IdleArgs
    /\ IdleRound

EvalHandValue ==
    /\ pc = "call"
    /\ pc' = "value_done"
    /\ ret' = [kind |-> "value",
               calculateHandValue |-> calculateHandValue(hand),
               calcValue |-> calcValue(hand),
               isSoftHand |-> isSoftHand(hand),
               isSoft |-> isSoft(hand)]
    /\ UNCHANGED <<argVars, roundVars, gameVars>>

NextValue == EvalHandValue

SpecValue == InitValue /\ [][NextValue]_vars

(***************************************************************************)
(* SpecStrategy: one call of getOptimalAction.                             *)
(***************************************************************************)
InitStrategy ==
    /\ pc = "call"
    /\ hand \in HandsOf(Cards, MaxStratLen)
    /\ dealerUpCard \in Cards
    /\ canDouble \in BOOLEAN
    /\ canSplit \in BOOLEAN
    /\ canSurrender \in BOOLEAN
    /\ ret = NoRet
    /\ IdleRound

EvalOptimalAction ==
    /\ pc = "call"
    /\ pc' = "strategy_done"
    /\ ret' = [kind |-> "action",
               action |-> getOptimalAction(hand, dealerUpCard, canDouble,
                                           canSplit, canSurrender)]
    /\ UNCHANGED <<argVars, roundVars, gameVars>>

NextStrategy == EvalOptimalAction

SpecStrategy == InitStrategy /\ [][NextStrategy]_vars

(***************************************************************************)
(* SpecRound: one call of resolveBlackjackRound.                           *)
(***************************************************************************)
\* the cards the resolver is called with
RoundCards == {Card("A"), Card("6"), Card("K")}

\* the player hands the resolver is called with: a natural, a two-card 20,
\* a soft 17, a three-card 21 and a three-card bust
PlayerHandPool ==
    {<<Card("A"), Card("K")>>, <<Card("K"), Card("K")>>, <<Card("A"), Card("6")>>,
     <<Card("K"), Card("A"), Card("K")>>, <<Card("K"), Card("6"), Card("K")>>}

\* handBets: none supplied, the first supplied, two supplied
BetLists == {<<>>, <<20>>, <<50, 20>>}

Bankrolls == {-100, 1950}

IdleStrategyArgs ==
    /\ hand = <<>>
    /\ IdleArgs

InitRound ==
    /\ pc = "call"
    /\ playerHands \in UNION {[1..n -> PlayerHandPool] : n \in 0..MaxPlayerHands}
    /\ dealerHand \in HandsOf(RoundCards, 2 + MaxSupply)
    /\ bankroll \in Bankrolls
    /\ handBets \in BetLists
    /\ dealerHitsSoft17 \in BOOLEAN
    /\ considerNaturalBlackjack \in BOOLEAN
    /\ dealerIdx = 0
    /\ dealerShown = <<>>
    /\ dVal = 0
    /\ ret = NoRet
    /\ IdleStrategyArgs
    /\ IdleGame

inputVars == <<playerHands, dealerHand, bankroll, handBets, dealerHitsSoft17,
               considerNaturalBlackjack>>

\* let dealerIdx = 2; dealerShown = dealerHand.slice(0, min(2, length));
\* dVal = calcValue(dealerHand)
BeginRound ==
    /\ pc = "call"
    /\ pc' = "dealer_loop"
    /\ dealerIdx' = 2
    /\ dealerShown' = SubSeq(dealerHand, 1, IF Len(dealerHand) < 2 THEN Len(dealerHand) ELSE 2)
    /\ dVal' = calcValue(dealerHand)
    /\ UNCHANGED <<ret, argVars, gameVars, inputVars>>

\* one iteration of the while loop that draws
DealerDraw ==
    /\ pc = "dealer_loop"
    /\ dealerLoopCondition(dVal, dealerShown, dealerHitsSoft17)
    /\ dealerIdx < Len(dealerHand)
    /\ dealerShown' = Append(dealerShown, dealerHand[dealerIdx + 1])
    /\ dealerIdx' = dealerIdx + 1
    /\ dVal' = calcValue(dealerShown')
    /\ UNCHANGED <<pc, ret, argVars, gameVars, inputVars>>

\* the loop ends: its condition is false, or no card is left (break)
DealerStop ==
    /\ pc = "dealer_loop"
    /\ \/ ~dealerLoopCondition(dVal, dealerShown, dealerHitsSoft17)
       \/ /\ dealerLoopCondition(dVal, dealerShown, dealerHitsSoft17)
          /\ dealerIdx >= Len(dealerHand)
    /\ pc' = "settle"
    /\ UNCHANGED <<ret, argVars, gameVars, inputVars, dealerIdx, dealerShown, dVal>>

dealerNatural == considerNaturalBlackjack /\ isBlackjack(dealerShown)

\* faulty variant: the first hand of a split round is also treated as initial
treatAsInitialAnyHandCount ==
    /\ considerNaturalBlackjack
    /\ Len(playerHands) >= 1
    /\ Len(playerHands[1]) = 2

\* considerNaturalBlackjack && playerHands.length === 1 && playerHands[0].length === 2
treatAsInitial ==
    /\ considerNaturalBlackjack
    /\ Len(playerHands) = 1
    /\ Len(playerHands[1]) = 2

\* if (playerNatural && dealerNatural): push, return 1 x bet
NaturalPush ==
    /\ pc = "settle"
    /\ treatAsInitial
    /\ isBlackjack(playerHands[1])
    /\ dealerNatural
    /\ LET bet0 == betAt(handBets, 1)
       IN  ret' = roundResult(<<[result |-> "push", bet |-> bet0, playerValue |-> 21,
                                 payout |-> bet0]>>, dealerHand)
    /\ pc' = "round_done"
    /\ UNCHANGED <<argVars, roundVars, gameVars>>

\* else if (playerNatural && !dealerNatural): blackjack, return 2.5 x bet
NaturalBlackjack ==
    /\ pc = "settle"
    /\ treatAsInitial
    /\ isBlackjack(playerHands[1])
    /\ ~dealerNatural
    /\ LET bet0 == betAt(handBets, 1)
       IN  ret' = roundResult(<<[result |-> "blackjack", bet |-> bet0, playerValue |-> 21,
                                 payout |-> (bet0 * 5) \div 2]>>, dealerHand)
    /\ pc' = "round_done"
    /\ UNCHANGED <<argVars, roundVars, gameVars>>

\* the normal resolution loop over every player hand, and the final return
NormalResolution ==
    /\ pc = "settle"
    /\ ~(treatAsInitial /\ isBlackjack(playerHands[1]))
    /\ ret' = roundResult([i \in 1..Len(playerHands) |->
                              settleHand(playerHands[i], betAt(handBets, i), dVal)],
                          dealerShown)
    /\ pc' = "round_done"
    /\ UNCHANGED <<argVars, roundVars, gameVars>>

NextRound ==
    \/ BeginRound
    \/ DealerDraw
    \/ DealerStop
    \/ NaturalPush
    \/ NaturalBlackjack
    \/ NormalResolution

SpecRound == InitRound /\ [][NextRound]_vars

(***************************************************************************)
(* The interactive game of the App component.                              *)
(*                                                                         *)
(* A click handler runs with the state of the render it was created in:    *)
(* it reads that state, and its setState calls take effect together when   *)
(* it returns; an updater function (setBankroll(prev => ...)) is applied   *)
(* to the latest value.  A function one handler calls (finishHand from     *)
(* hit, dealerPlay from stand and double) and a setTimeout callback read   *)
(* the state of that same render, not the state the handler has set.       *)
(***************************************************************************)
\* createDeck: suits (spades, hearts, diamonds, clubs)
suits == <<"S", "H", "D", "C">>

\* the ranks createDeck builds the game's deck from
GameRanks == {"A", "6", "K"}

\* createDeck: one card per suit and rank
DeckSize == Len(suits) * Cardinality(GameRanks)

\* the cards the shuffle may have put next, after the revealed ones: suits
\* are interchangeable, so a rank comes in the order of suits
NextCards(ord) ==
    {[suit |-> suits[Cardinality({i \in 1..Len(ord) : ord[i].rank = r}) + 1],
      rank |-> r, value |-> cardValue(r)] :
        r \in {q \in GameRanks :
                  Cardinality({i \in 1..Len(ord) : ord[i].rank = q}) < Len(suits)}}

\* deck.pop() on a deck of n cards, ord being the revealed pop order: the
\* card popped and the pop order then revealed; no result on an empty deck
Pops(ord, n) ==
    IF n = 0 THEN {}
    ELSE IF DeckSize - n + 1 <= Len(ord)
         THEN {[card |-> ord[DeckSize - n + 1], ord |-> ord]}
         ELSE {[card |-> c, ord |-> Append(ord, c)] : c \in NextCards(ord)}

\* canSplit(hand)
canSplitHand(h) == Len(h) = 2 /\ h[1].rank = h[2].rank

\* recordDecision: the scenario key
scenarioKeyOf(playerHand, upCard) ==
    IF Len(playerHand) = 2 /\ playerHand[1].rank = playerHand[2].rank
    THEN "pair_" \o playerHand[1].rank \o "_vs_" \o upCard.rank
    ELSE IF isSoftHand(playerHand)
    THEN "soft_" \o ToString(calculateHandValue(playerHand)) \o "_vs_" \o upCard.rank
    ELSE "hard_" \o ToString(calculateHandValue(playerHand)) \o "_vs_" \o upCard.rank

\* recordDecision: the decision record (without its timestamp)
decisionOf(playerHand, upCard, action) ==
    LET optimalAction == getOptimalAction(playerHand, upCard, TRUE, TRUE, TRUE)
    IN  [playerHand |-> playerHand,
         dealerUpCard |-> upCard,
         playerValue |-> calculateHandValue(playerHand),
         dealerValue |-> upCard.value,
         action |-> action,
         optimalAction |-> optimalAction,
         scenarioKey |-> scenarioKeyOf(playerHand, upCard),
         isOptimal |-> (action = optimalAction)]

\* faulty variant: a correct decision is counted for every recorded action
scenarioUpdateAlwaysCorrect(prev, key, action, optimalAction) ==
    LET scenario == IF key \in DOMAIN prev THEN prev[key]
                    ELSE [count |-> 0, actions |-> <<>>,
                          optimalAction |-> optimalAction, correctDecisions |-> 0]
        taken == IF action \in DOMAIN scenario.actions THEN scenario.actions[action] ELSE 0
    IN  (key :> [count |-> scenario.count + 1,
                 actions |-> (action :> taken + 1) @@ scenario.actions,
                 optimalAction |-> scenario.optimalAction,
                 correctDecisions |-> scenario.correctDecisions + 1]) @@ prev

\* recordDecision: the setScenarioStats updater
scenarioUpdate(prev, key, action, optimalAction) ==
    LET scenario == IF key \in DOMAIN prev THEN prev[key]
                    ELSE [count |-> 0, actions |-> <<>>,
                          optimalAction |-> optimalAction, correctDecisions |-> 0]
        taken == IF action \in DOMAIN scenario.actions THEN scenario.actions[action] ELSE 0
    IN  (key :> [count |-> scenario.count + 1,
                 actions |-> (action :> taken + 1) @@ scenario.actions,
                 optimalAction |-> scenario.optimalAction,
                 correctDecisions |-> scenario.correctDecisions
                                      + (IF action = optimalAction THEN 1 ELSE 0)]) @@ prev

\* faulty variant: the safety check lets an empty hand through
recordDecisionEmptyHandRecorded(history, stats, playerHand, upCard, action) ==
    IF upCard = nullCard \/ playerHand = nullHand
    THEN [decisionHistory |-> history, scenarioStats |-> stats]
    ELSE LET decision == decisionOf(playerHand, upCard, action)
         IN  [decisionHistory |-> Append(history, decision),
              scenarioStats |-> scenarioUpdate(stats, decision.scenarioKey, action,
                                               decision.optimalAction)]

\* recordDecision(playerHand, dealerUpCard, action): decisionHistory and
\* scenarioStats after the call
recordDecision(history, stats, playerHand, upCard, action) ==
    IF upCard = nullCard \/ playerHand = nullHand \/ Len(playerHand) = 0
    THEN [decisionHistory |-> history, scenarioStats |-> stats]
    ELSE LET decision == decisionOf(playerHand, upCard, action)
         IN  [decisionHistory |-> Append(history, decision),
              scenarioStats |-> scenarioUpdate(stats, decision.scenarioKey, action,
                                               decision.optimalAction)]

\* finishHand: handBets[index] ?? currentBet, index counted from 1
handBetOf(bets, i, cb) == IF i <= Len(bets) THEN bets[i] ELSE cb

\* finishHand: the outcome of one hand in the forEach, as the result handed
\* to updateStats and the amount added to totalWinnings
finishOne(h, handBet, dealerValue) ==
    LET playerValue == calculateHandValue(h)
    IN  IF playerValue > 21 THEN [result |-> "loss", winnings |-> 0]
        ELSE IF dealerValue > 21 THEN [result |-> "win", winnings |-> handBet * 2]
        ELSE IF playerValue > dealerValue THEN [result |-> "win", winnings |-> handBet * 2]
        ELSE IF playerValue < dealerValue THEN [result |-> "loss", winnings |-> 0]
        ELSE [result |-> "push", winnings |-> handBet]

\* finishHand run on the dealerHand, playerHands, handBets and currentBet
\* of the render it closes over: the outcome of every hand
finishAll(c) ==
    [i \in 1..Len(c.playerHands) |->
        finishOne(c.playerHands[i], handBetOf(c.handBets, i, c.currentBet),
                  calculateHandValue(c.dealerHand))]

\* finishHand: totalWinnings
totalWinnings(c) == sumPayouts([i \in 1..Len(c.playerHands) |-> finishAll(c)[i].winnings])

\* finishHand: setBankroll(prev => Math.max(0, prev + totalWinnings))
finishBankroll(prev, c) ==
    IF prev + totalWinnings(c) > 0 THEN prev + totalWinnings(c) ELSE 0

\* finishHand: its updateStats calls, one per hand in order
finishSettlements(c) ==
    [i \in 1..Len(c.playerHands) |->
        [round |-> c.round, hand |-> i - 1, result |-> finishAll(c)[i].result]]

\* the state a handler, and the callbacks it creates, close over
closure ==
    [kind |-> "dealer", round |-> roundNo, dealerHand |-> dealerHand,
     playerHands |-> playerHands, handBets |-> handBets, currentBet |-> currentBet]

\* the condition of dealerPlay's while loop
dealerPlayCondition(dh) ==
    \/ calculateHandValue(dh) < 17
    \/ calculateHandValue(dh) = 17 /\ dealerHitsSoft17 /\ isSoftHand(dh)

RECURSIVE dealerPlayFrom(_, _)
\* dealerPlay's loop from the hand dh, the deck popping the cards of
\* further in order: the final dealer hand
dealerPlayFrom(dh, further) ==
    IF ~dealerPlayCondition(dh) \/ further = <<>>
    THEN dh
    ELSE dealerPlayFrom(Append(dh, Head(further)), Tail(further))

RECURSIVE dealerPlayRuns(_, _, _)
\* dealerPlay's loop from the hand dh on a deck of n cards: every way it
\* can end, as the final hand, the cards left and the pop order revealed
dealerPlayRuns(dh, ord, n) ==
    IF ~dealerPlayCondition(dh) \/ n = 0
    THEN {[dealerHand |-> dh, deck |-> n, ord |-> ord]}
    ELSE UNION {dealerPlayRuns(Append(dh, q.card), q.ord, n - 1) : q \in Pops(ord, n)}

(***************************************************************************)
(* SpecGame: the interactive game.                                         *)
(***************************************************************************)
\* the bets the player chooses among: $5 and $25
BetChoices == {10, 50}

\* the bankroll a round starts from: one bet left ($25), the initial $1000
StartBankrolls == {50, 2000}

InitGame ==
    /\ pc = "game"
    /\ ret = NoRet
    /\ IdleStrategyArgs
    /\ considerNaturalBlackjack = FALSE
    /\ dealerIdx = 0
    /\ dealerShown = <<>>
    /\ dVal = 0
    /\ gameState = "betting"
    /\ playerHands = << <<>> >>
    /\ handBets = <<>>
    /\ dealerHand = <<>>
    /\ currentHandIndex = 0
    /\ handsToPlay = 1
    /\ bankroll \in StartBankrolls
    /\ currentBet = 50
    /\ dealerHitsSoft17 \in BOOLEAN
    /\ surrenderAllowed = TRUE
    /\ insuranceOffered = FALSE
    /\ deck = DeckSize
    /\ shuffled = <<>>
    /\ timers = <<>>
    /\ decisionHistory = <<>>
    /\ scenarioStats = <<>>
    /\ roundNo = 0
    /\ settlements = <<>>

\* the variables the game does not use
callVars == <<pc, ret, argVars, considerNaturalBlackjack, dealerIdx, dealerShown, dVal>>

\* the action buttons are rendered: gameState === 'playing' && !insuranceOffered
ActionButtons ==
    /\ gameState = "playing"
    /\ ~insuranceOffered
    /\ Len(decisionHistory) < MaxDecisions

\* the hand the action buttons act on
currentHand == playerHands[currentHandIndex + 1]

\* a handler's recordDecision call, made when dealerHand.length > 0
Records(h, action) ==
    LET r == IF Len(dealerHand) > 0
             THEN recordDecision(decisionHistory, scenarioStats, h, dealerHand[1], action)
             ELSE [decisionHistory |-> decisionHistory, scenarioStats |-> scenarioStats]
    IN  /\ decisionHistory' = r.decisionHistory
        /\ scenarioStats' = r.scenarioStats

\* the Deal Hand button
startNewHand ==
    /\ gameState = "betting"
    /\ bankroll >= currentBet
    /\ roundNo < MaxRounds
    /\ LET fresh == deck < 20 \/ deck < 4
           n0 == IF fresh THEN DeckSize ELSE deck
           ord0 == IF fresh THEN <<>> ELSE shuffled
       IN  \E q1 \in Pops(ord0, n0) : \E q2 \in Pops(q1.ord, n0 - 1) :
           \E q3 \in Pops(q2.ord, n0 - 2) : \E q4 \in Pops(q3.ord, n0 - 3) :
             LET playerCard1 == q1.card
                 dealerCard1 == q2.card
                 playerCard2 == q3.card
                 dealerCard2 == q4.card
                 natural == calculateHandValue(<<playerCard1, playerCard2>>) = 21
             IN  /\ playerHands' = << <<playerCard1, playerCard2>> >>
                 /\ dealerHand' = <<dealerCard1, dealerCard2>>
                 /\ deck' = n0 - 4
                 /\ shuffled' = q4.ord
                 /\ timers' = IF natural
                              THEN Append(timers,
                                     [kind |-> "natural", round |-> roundNo + 1,
                                      dealerHand |-> <<dealerCard1, dealerCard2>>,
                                      playerHands |-> <<>>, handBets |-> <<>>,
                                      currentBet |-> currentBet])
                              ELSE timers
                 /\ insuranceOffered' = (~natural /\ dealerCard1.rank = "A")
    /\ gameState' = "playing"
    /\ currentHandIndex' = 0
    /\ handsToPlay' = 1
    /\ handBets' = <<currentBet>>
    /\ bankroll' = bankroll - currentBet
    /\ roundNo' = roundNo + 1
    /\ UNCHANGED <<callVars, dealerHitsSoft17, currentBet, surrenderAllowed,
                   decisionHistory, scenarioStats, settlements>>

\* the natural-blackjack timer of startNewHand, 500 ms after the deal
naturalTimer ==
    \E i \in 1..Len(timers) :
        /\ timers[i].kind = "natural"
        /\ \A j \in 1..(i - 1) : timers[j].kind = "dealer"
        /\ timers' = SubSeq(timers, 1, i - 1) \o SubSeq(timers, i + 1, Len(timers))
        /\ gameState' = "finished"
        /\ IF calculateHandValue(timers[i].dealerHand) = 21
           THEN /\ bankroll' = bankroll + timers[i].currentBet
                /\ settlements' = Append(settlements,
                       [round |-> timers[i].round, hand |-> 0, result |-> "push"])
           ELSE /\ bankroll' = bankroll + (timers[i].currentBet * 5) \div 2
                /\ settlements' = Append(settlements,
                       [round |-> timers[i].round, hand |-> 0, result |-> "blackjack"])
        /\ UNCHANGED <<callVars, playerHands, dealerHand, handBets, dealerHitsSoft17,
                       currentHandIndex, handsToPlay, currentBet, surrenderAllowed,
                       insuranceOffered, deck, shuffled, decisionHistory, scenarioStats,
                       roundNo>>

\* either insurance button: setInsuranceOffered(false)
insurance ==
    /\ insuranceOffered
    /\ gameState = "playing"
    /\ insuranceOffered' = FALSE
    /\ UNCHANGED <<callVars, roundVars, gameState, currentHandIndex, handsToPlay,
                   currentBet, surrenderAllowed, deck, shuffled, timers, decisionHistory,
                   scenarioStats, roundNo, settlements>>

\* the Hit button
hit ==
    /\ ActionButtons
    /\ deck # 0
    /\ currentHandIndex < Len(playerHands)
    /\ \E q \in Pops(shuffled, deck) :
          LET newHands == [playerHands EXCEPT ![currentHandIndex + 1] = Append(@, q.card)]
              busted == calculateHandValue(newHands[currentHandIndex + 1]) > 21
          IN  /\ playerHands' = newHands
              /\ deck' = deck - 1
              /\ shuffled' = q.ord
              /\ IF busted /\ currentHandIndex < handsToPlay - 1
                 THEN /\ currentHandIndex' = currentHandIndex + 1
                      /\ UNCHANGED <<gameState, bankroll, settlements>>
                 ELSE IF busted
                 \* finishHand('bust'), on the hands and bets of this render
                 THEN /\ gameState' = "finished"
                      /\ bankroll' = finishBankroll(bankroll, closure)
                      /\ settlements' = settlements \o finishSettlements(closure)
                      /\ UNCHANGED currentHandIndex
                 ELSE UNCHANGED <<gameState, bankroll, settlements, currentHandIndex>>
    /\ Records(currentHand, "hit")
    /\ UNCHANGED <<callVars, dealerHand, handBets, dealerHitsSoft17, handsToPlay,
                   currentBet, surrenderAllowed, insuranceOffered, timers, roundNo>>

\* dealerPlay(), called by a handler: the dealer draws from the deck of the
\* handler's render (n cards), and finishHand is set to run after 1000 ms
dealerPlay(ord, n) ==
    /\ Len(timers) < MaxTimers
    /\ \E run \in dealerPlayRuns(dealerHand, ord, n) :
          /\ deck' = run.deck
          /\ shuffled' = run.ord
          /\ dealerHand' = run.dealerHand
    /\ timers' = Append(timers, closure)

\* the Stand button
stand ==
    /\ ActionButtons
    /\ currentHandIndex < Len(playerHands)
    /\ Records(currentHand, "stand")
    /\ IF currentHandIndex < handsToPlay - 1
       THEN /\ currentHandIndex' = currentHandIndex + 1
            /\ UNCHANGED <<deck, shuffled, dealerHand, timers>>
       ELSE /\ dealerPlay(shuffled, deck)
            /\ UNCHANGED currentHandIndex
    /\ UNCHANGED <<callVars, playerHands, bankroll, handBets, dealerHitsSoft17, gameState,
                   handsToPlay, currentBet, surrenderAllowed, insuranceOffered, roundNo,
                   settlements>>

\* the Double button
double ==
    /\ ActionButtons
    /\ Len(currentHand) = 2
    /\ bankroll >= currentBet
    /\ currentHandIndex < Len(playerHands)
    /\ LET baseBet == handBetOf(handBets, currentHandIndex + 1, currentBet)
       IN  /\ bankroll' = bankroll - baseBet
           /\ handBets' = [handBets EXCEPT ![currentHandIndex + 1] = baseBet * 2]
    /\ IF deck = 0
       \* no card to draw: return after the bet has been doubled
       THEN UNCHANGED <<playerHands, deck, shuffled, dealerHand, timers, currentHandIndex,
                        decisionHistory, scenarioStats>>
       ELSE \E q \in Pops(shuffled, deck) :
              /\ playerHands' = [playerHands EXCEPT ![currentHandIndex + 1] =
                                                       Append(@, q.card)]
              /\ Records(currentHand, "double")
              /\ IF currentHandIndex < handsToPlay - 1
                 THEN /\ currentHandIndex' = currentHandIndex + 1
                      /\ deck' = deck - 1
                      /\ shuffled' = q.ord
                      /\ UNCHANGED <<dealerHand, timers>>
                 \* dealerPlay's setDeck comes last: it overrides setDeck(newDeck)
                 ELSE /\ dealerPlay(q.ord, deck)
                      /\ UNCHANGED currentHandIndex
    /\ UNCHANGED <<callVars, dealerHitsSoft17, gameState, handsToPlay, currentBet,
                   surrenderAllowed, insuranceOffered, roundNo, settlements>>

\* the Split button
split ==
    /\ ActionButtons
    /\ canSplitHand(currentHand)
    /\ bankroll >= currentBet
    /\ Len(playerHands) < MaxSplitHands
    /\ bankroll' = bankroll - currentBet
    /\ handBets' = Append(handBets, currentBet)
    /\ handsToPlay' = handsToPlay + 1
    /\ IF deck = 0
       \* no card to draw: return with the two one-card hands
       THEN /\ playerHands' = Append([playerHands EXCEPT ![currentHandIndex + 1] =
                                                            <<currentHand[1]>>],
                                     <<currentHand[2]>>)
            /\ UNCHANGED <<deck, shuffled, decisionHistory, scenarioStats>>
       ELSE \E q \in Pops(shuffled, deck) :
              /\ playerHands' = Append([playerHands EXCEPT ![currentHandIndex + 1] =
                                                              <<currentHand[1], q.card>>],
                                       <<currentHand[2]>>)
              /\ deck' = deck - 1
              /\ shuffled' = q.ord
              /\ Records(<<currentHand[1]>>, "split")
    /\ UNCHANGED <<callVars, dealerHand, dealerHitsSoft17, gameState, currentHandIndex,
                   currentBet, surrenderAllowed, insuranceOffered, timers, roundNo,
                   settlements>>

\* Math.floor(currentBet / 2), currentBet in dollars, in half dollars
halfBetFloored(cb) == 2 * ((cb \div 2) \div 2)

\* the Surrender button
surrender ==
    /\ ActionButtons
    /\ surrenderAllowed
    /\ Len(currentHand) = 2
    /\ bankroll' = bankroll + halfBetFloored(currentBet)
    /\ Records(currentHand, "surrender")
    /\ settlements' = Append(settlements, [round |-> roundNo, hand |-> currentHandIndex,
                                            result |-> "surrender"])
    /\ gameState' = "finished"
    /\ UNCHANGED <<callVars, playerHands, dealerHand, handBets, dealerHitsSoft17,
                   currentHandIndex, handsToPlay, currentBet, surrenderAllowed,
                   insuranceOffered, deck, shuffled, timers, roundNo>>

\* the timer of dealerPlay, 1000 ms after it: finishHand('dealer_finished')
\* on the hands and bets of the render dealerPlay was called in
finishTimer ==
    /\ timers # <<>>
    /\ timers[1].kind = "dealer"
    /\ timers' = Tail(timers)
    /\ gameState' = "finished"
    /\ bankroll' = finishBankroll(bankroll, timers[1])
    /\ settlements' = settlements \o finishSettlements(timers[1])
    /\ UNCHANGED <<callVars, playerHands, dealerHand, handBets, dealerHitsSoft17,
                   currentHandIndex, handsToPlay, currentBet, surrenderAllowed,
                   insuranceOffered, deck, shuffled, decisionHistory, scenarioStats,
                   roundNo>>

\* the New Hand button
newHand ==
    /\ gameState = "finished"
    /\ gameState' = "betting"
    /\ UNCHANGED <<callVars, roundVars, currentHandIndex, handsToPlay, currentBet,
                   surrenderAllowed, insuranceOffered, deck, shuffled, timers,
                   decisionHistory, scenarioStats, roundNo, settlements>>

\* the bet input of the betting panel: setCurrentBet, for a round to come
setCurrentBet ==
    /\ gameState = "betting"
    /\ roundNo < MaxRounds
    /\ \E b \in BetChoices \ {currentBet} : currentBet' = b
    /\ UNCHANGED <<callVars, roundVars, gameState, currentHandIndex, handsToPlay,
                   surrenderAllowed, insuranceOffered, deck, shuffled, timers,
                   decisionHistory, scenarioStats, roundNo, settlements>>

\* the Reset All Data button, pressed between two rounds
resetAllData ==
    /\ gameState = "betting"
    /\ decisionHistory # <<>>
    /\ decisionHistory' = <<>>
    /\ scenarioStats' = <<>>
    /\ bankroll' = 2000
    /\ UNCHANGED <<callVars, playerHands, dealerHand, handBets, dealerHitsSoft17,
                   gameState, currentHandIndex, handsToPlay, currentBet, surrenderAllowed,
                   insuranceOffered, deck, shuffled, timers, roundNo, settlements>>

NextGame ==
    \/ startNewHand
    \/ naturalTimer
    \/ insurance
    \/ hit
    \/ stand
    \/ double
    \/ split
    \/ surrender
    \/ finishTimer
    \/ newHand
    \/ setCurrentBet
    \/ resetAllData

SpecGame == InitGame /\ [][NextGame]_vars

(***************************************************************************)
(* SpecRecorder: recordDecision called on its own, on any hand.            *)
(***************************************************************************)
\* the cards of the hands recordDecision is called with
RecorderCards == {Card("A"), Card("6"), Card("7"), Card("9"), Card("10")}

\* the dealer up-cards recordDecision is called with
RecorderUpCards == {Card("6"), Card("10")}

InitRecorder ==
    /\ pc = "recorder"
    /\ ret = NoRet
    /\ IdleStrategyArgs
    /\ IdleRound

\* one call recordDecision(playerHand, dealerUpCard, action)
recordCall ==
    /\ pc = "recorder"
    /\ Len(decisionHistory) < MaxCalls
    /\ \E h \in HandsOf(RecorderCards, 3) \ {<<>>} : \E u \in RecorderUpCards :
       \E a \in {"hit", "stand"} :
          LET r == recordDecision(decisionHistory, scenarioStats, h, u, a)
          IN  /\ decisionHistory' = r.decisionHistory
              /\ scenarioStats' = r.scenarioStats
    /\ UNCHANGED <<pc, ret, argVars, roundVars, gameState, currentHandIndex, handsToPlay,
                   currentBet, surrenderAllowed, insuranceOffered, deck, shuffled, timers,
                   roundNo, settlements>>

NextRecorder == recordCall

SpecRecorder == InitRecorder /\ [][NextRecorder]_vars

(***************************************************************************)
(* SpecMalformed: the operations called on missing or empty input:         *)
(* getOptimalAction, the hand predicates and recordDecision on a null or   *)
(* empty hand or a null up-card, resolveBlackjackRound on an empty         *)
(* dealerHand or an empty playerHands list.                                *)
(***************************************************************************)
\* calls with a null or empty hand, or with a null up-card
MalformedCalls ==
    {<<h, u>> : h \in {nullHand, <<>>}, u \in RecorderUpCards \cup {nullCard}}
        \cup {<<h, nullCard>> : h \in HandsOf(RecorderCards, 2) \ {<<>>}}

\* the history and statistics before the call: nothing recorded, or one decision
PriorRecords ==
    {[decisionHistory |-> <<>>, scenarioStats |-> <<>>],
     recordDecision(<<>>, <<>>, <<Card("10"), Card("6")>>, Card("10"), "hit")}

\* resolver inputs with an empty dealerHand or an empty playerHands list
MalformedRounds ==
    {<<<<>>, d>> : d \in HandsOf(RoundCards, 2 + MaxSupply)}
        \cup {<<p, <<>>>> : p \in UNION {[1..n -> PlayerHandPool] : n \in 0..MaxPlayerHands}}

InitMalformed ==
    /\ ret = NoRet
    /\ gameState = "betting"
    /\ currentHandIndex = 0
    /\ handsToPlay = 1
    /\ currentBet = 0
    /\ surrenderAllowed = FALSE
    /\ insuranceOffered = FALSE
    /\ deck = 0
    /\ shuffled = <<>>
    /\ timers = <<>>
    /\ roundNo = 0
    /\ settlements = <<>>
    /\ dealerIdx = 0
    /\ dealerShown = <<>>
    /\ dVal = 0
    /\ \/ /\ pc = "probe"
          /\ \E c \in MalformedCalls : hand = c[1] /\ dealerUpCard = c[2]
          /\ canDouble \in BOOLEAN
          /\ canSplit \in BOOLEAN
          /\ canSurrender \in BOOLEAN
          /\ \E r \in PriorRecords :
                /\ decisionHistory = r.decisionHistory
                /\ scenarioStats = r.scenarioStats
          /\ playerHands = <<>>
          /\ dealerHand = <<>>
          /\ bankroll = 0
          /\ handBets = <<>>
          /\ dealerHitsSoft17 = FALSE
          /\ considerNaturalBlackjack = FALSE
       \/ /\ pc = "call"
          /\ \E m \in MalformedRounds : playerHands = m[1] /\ dealerHand = m[2]
          /\ bankroll \in Bankrolls
          /\ handBets \in BetLists
          /\ dealerHitsSoft17 \in BOOLEAN
          /\ considerNaturalBlackjack \in BOOLEAN
          /\ decisionHistory = <<>>
          /\ scenarioStats = <<>>
          /\ IdleStrategyArgs

\* getOptimalAction(playerHand, dealerUpCard, canDouble, canSplit, canSurrender)
probeOptimalAction ==
    /\ pc = "probe"
    /\ pc' = "probe_action"
    /\ ret' = [kind |-> "action",
               action |-> getOptimalAction(hand, dealerUpCard, canDouble,
                                           canSplit, canSurrender)]
    /\ UNCHANGED <<argVars, roundVars, gameVars>>

\* the hand value functions and predicates on the empty hand
probeEmptyHand ==
    /\ pc = "probe"
    /\ hand = <<>>
    /\ pc' = "probe_value"
    /\ ret' = [kind |-> "value",
               calculateHandValue |-> calculateHandValue(hand),
               calcValue |-> calcValue(hand),
               isSoftHand |-> isSoftHand(hand),
               isSoft |-> isSoft(hand),
               canSplit |-> canSplitHand(hand),
               isBlackjack |-> isBlackjack(hand)]
    /\ UNCHANGED <<argVars, roundVars, gameVars>>

\* recordDecision(playerHand, dealerUpCard, action)
probeRecordDecision ==
    /\ pc = "probe"
    /\ pc' = "probe_recorded"
    /\ \E a \in {"hit", "stand"} :
          LET r == recordDecision(decisionHistory, scenarioStats, hand, dealerUpCard, a)
          IN  /\ decisionHistory' = r.decisionHistory
              /\ scenarioStats' = r.scenarioStats
              /\ ret' = [kind |-> "recorded", action |-> a]
    /\ UNCHANGED <<argVars, roundVars, gameState, currentHandIndex, handsToPlay,
                   currentBet, surrenderAllowed, insuranceOffered, deck, shuffled, timers,
                   roundNo, settlements>>

NextMalformed ==
    \/ probeOptimalAction
    \/ probeEmptyHand
    \/ probeRecordDecision
    \/ BeginRound
    \/ DealerDraw
    \/ DealerStop
    \/ NaturalBlackjack
    \/ NormalResolution

SpecMalformed == InitMalformed /\ [][NextMalformed]_vars

(***************************************************************************)
(* SpecTable: the strategy table of the statistics view, rendered over     *)
(* the statistics of a recorded two-card decision.                         *)
(***************************************************************************)
\* renderStrategyTable: dealerCards
dealerCards == <<"2", "3", "4", "5", "6", "7", "8", "9", "10", "A">>

\* renderStrategyTable: pairRanks
pairRanks == <<"A", "2", "3", "4", "5", "6", "7", "8", "9", "10">>

\* renderStrategyTable: the hard rows run from 5 to 21
hardRows == 5..21

\* renderStrategyTable: the soft rows A,2 to A,9, value i + 11
softRows == {i + 11 : i \in 2..9}

\* text === 'A' ? 11 : text === '10' ? 10 : parseInt(text) || 10
mockValue(text) == IF text = "A" THEN 11 ELSE IF text = "10" THEN 10 ELSE parseInt(text)

\* the mock dealer card of a column
mockDealer(dealerCard) == [rank |-> dealerCard, value |-> mockValue(dealerCard)]

\* faulty variant: the hard mock hand is made of the two halves of the total
mockHardHandHalves(v) ==
    <<[rank |-> ToString(v \div 2), value |-> v \div 2],
      [rank |-> ToString(v - v \div 2), value |-> v - v \div 2]>>

\* the mock hand of a hard row: a 10 and a card of value - 10
mockHardHand(v) ==
    <<[rank |-> "10", value |-> 10], [rank |-> ToString(v - 10), value |-> v - 10]>>

\* the mock hand of a soft row: an Ace and a card of value - 11
mockSoftHand(v) ==
    <<[rank |-> "A", value |-> 11], [rank |-> ToString(v - 11), value |-> v - 11]>>

\* the mock hand of a pair row: the same card twice
mockPairHand(r) == <<[rank |-> r, value |-> mockValue(r)], [rank |-> r, value |-> mockValue(r)]>>

\* the cells of the table: scenario key and optimal action shown
tableCells ==
    {[scenarioKey |-> "hard_" \o ToString(v) \o "_vs_" \o dealerCards[j],
      optimalAction |-> getOptimalAction(mockHardHand(v), mockDealer(dealerCards[j]),
                                         TRUE, TRUE, TRUE)] :
        v \in hardRows, j \in 1..Len(dealerCards)}
    \cup
    {[scenarioKey |-> "soft_" \o ToString(v) \o "_vs_" \o dealerCards[j],
      optimalAction |-> getOptimalAction(mockSoftHand(v), mockDealer(dealerCards[j]),
                                         TRUE, TRUE, TRUE)] :
        v \in softRows, j \in 1..Len(dealerCards)}
    \cup
    {[scenarioKey |-> "pair_" \o pairRanks[i] \o "_vs_" \o dealerCards[j],
      optimalAction |-> getOptimalAction(mockPairHand(pairRanks[i]),
                                         mockDealer(dealerCards[j]), TRUE, TRUE, TRUE)] :
        i \in 1..Len(pairRanks), j \in 1..Len(dealerCards)}

InitTable ==
    /\ pc = "table"
    /\ ret = NoRet
    /\ IdleStrategyArgs
    /\ IdleRound

\* one two-card decision is recorded in play
recordTwoCards ==
    /\ pc = "table"
    /\ decisionHistory = <<>>
    /\ \E h \in [1..2 -> Cards] : \E u \in Cards : \E a \in {"hit", "stand"} :
          LET r == recordDecision(decisionHistory, scenarioStats, h, u, a)
          IN  /\ decisionHistory' = r.decisionHistory
              /\ scenarioStats' = r.scenarioStats
    /\ UNCHANGED <<pc, ret, argVars, roundVars, gameState, currentHandIndex, handsToPlay,
                   currentBet, surrenderAllowed, insuranceOffered, deck, shuffled, timers,
                   roundNo, settlements>>

\* the table is rendered: the optimal action of every cell, by scenario key
renderStrategyTable ==
    /\ pc = "table"
    /\ pc' = "table_done"
    /\ ret' = [kind |-> "table",
               optimalAction |-> [k \in {c.scenarioKey : c \in tableCells} |->
                                    (CHOOSE c \in tableCells : c.scenarioKey = k).optimalAction]]
    /\ UNCHANGED <<argVars, roundVars, gameVars>>

NextTable ==
    \/ recordTwoCards
    \/ renderStrategyTable

SpecTable == InitTable /\ [][NextTable]_vars

(***************************************************************************)
(* Reference notions the claims are stated in.                            *)
(***************************************************************************)
AceCount(h) == Cardinality({i \in 1..Len(h) : h[i].rank = "A"})

RECURSIVE HardSum(_)
\* the total with every Ace counted as 1
HardSum(h) ==
    IF h = <<>> THEN 0
    ELSE (IF h[Len(h)].rank = "A" THEN 1 ELSE h[Len(h)].value)
         + HardSum(SubSeq(h, 1, Len(h) - 1))

\* the totals obtainable by counting each Ace as 1 or 11
AceTotals(h) == {HardSum(h) + 10 * k : k \in 0..AceCount(h)}

\* the largest such total <= 21, or the all-Aces-as-1 total when there is none
BestTotal(h) ==
    LET ok == {t \in AceTotals(h) : t <= 21}
    IN  IF ok = {} THEN HardSum(h)
        ELSE CHOOSE t \in ok : \A u \in ok : u <= t

\* an Ace is still counted as 11 in the hand's total
CountsAceAs11(h) == AceCount(h) > 0 /\ BestTotal(h) >= HardSum(h) + 10

Reordered(h, p) == [i \in 1..Len(h) |-> h[p[i]]]

(***************************************************************************)
(* C8: the hand total of both implementations is the largest total <= 21   *)
(* obtainable by counting each Ace as 1 or 11 (the all-Aces-as-1 total     *)
(* when none is <= 21); it is the same for every ordering of the cards,    *)
(* and 0 for the empty hand.                                               *)
(***************************************************************************)
C8_HandTotal ==
    pc = "value_done" =>
        /\ ret.calculateHandValue = BestTotal(hand)
        /\ ret.calcValue = BestTotal(hand)
        /\ \A p \in Permutations(1..Len(hand)) :
              /\ calculateHandValue(Reordered(hand, p)) = ret.calculateHandValue
              /\ calcValue(Reordered(hand, p)) = ret.calcValue
        /\ (hand = <<>> => ret.calculateHandValue = 0 /\ ret.calcValue = 0)

C8_Witness ==
    /\ pc = "value_done"
    /\ Len(hand) = 3
    /\ AceCount(hand) = 2
    /\ hand[2].rank = "K"
    /\ ret.calculateHandValue = 12
    /\ ret.calcValue = 12

(***************************************************************************)
(* C9: both soft tests are true exactly when the hand contains an Ace      *)
(* that is still counted as 11 after the ace reduction, for every hand,    *)
(* [A,A] and [A,A,5] included; both implementations agree on every hand.   *)
(***************************************************************************)
C9_SoftTest ==
    pc = "value_done" =>
        /\ ret.isSoftHand = CountsAceAs11(hand)
        /\ ret.isSoft = CountsAceAs11(hand)
        /\ ret.isSoftHand = ret.isSoft

(***************************************************************************)
(* The strategy table as the specification words it.                       *)
(***************************************************************************)
\* the dealer up-card's effective value: Ace 11, face cards 10
UpCardValue(card) ==
    CASE card.rank = "A" -> 11
      [] card.rank \in {"10", "J", "Q", "K"} -> 10
      [] OTHER -> parseInt(card.rank)

SplitTable(rank, d) ==
    CASE rank \in {"A", "8"} -> TRUE
      [] rank = "9" -> d \in {2, 3, 4, 5, 6, 8, 9}
      [] rank = "7" -> d \in 2..7
      [] rank = "6" -> d \in 2..6
      [] rank \in {"2", "3"} -> d \in 2..7
      [] rank = "4" -> d \in {5, 6}
      [] OTHER -> FALSE

HardTable(t, d, cd, cs, twoCards) ==
    CASE t >= 17 -> "stand"
      [] t \in 13..16 /\ d \in 2..6 -> "stand"
      [] t = 12 /\ d \in 4..6 -> "stand"
      [] t = 11 /\ cd -> "double"
      [] t = 10 /\ cd /\ d \in 2..9 -> "double"
      [] t = 9 /\ cd /\ d \in 3..6 -> "double"
      [] OTHER ->
           IF cs /\ twoCards /\ ((t = 16 /\ d \in {9, 10, 11}) \/ (t = 15 /\ d = 10))
           THEN "surrender" ELSE "hit"

SoftTable(t, d, cd) ==
    CASE t >= 19 -> "stand"
      [] t = 18 -> IF d \in 3..6 /\ cd THEN "double"
                   ELSE IF d >= 9 THEN "hit" ELSE "stand"
      [] t = 17 /\ d \in 3..6 /\ cd -> "double"
      [] t \in 15..16 /\ d \in 4..6 /\ cd -> "double"
      [] t \in 13..14 /\ d \in 5..6 /\ cd -> "double"
      [] OTHER -> "hit"

IsPairHand(h) == Len(h) = 2 /\ h[1].rank = h[2].rank

\* the pair rule returns for this call
PairRuleResolves ==
    IsPairHand(hand) /\ canSplit /\ SplitTable(hand[1].rank, UpCardValue(dealerUpCard))

(***************************************************************************)
(* C5: for a two-card hand of identical rank with canSplit true,           *)
(* getOptimalAction returns 'split' exactly in the cases of the pair       *)
(* table, and otherwise what the soft/hard rules give for the pair's       *)
(* total.                                                                  *)
(***************************************************************************)
C5_PairRule ==
    (pc = "strategy_done" /\ IsPairHand(hand) /\ canSplit) =>
        LET d == UpCardValue(dealerUpCard)
            t == BestTotal(hand)
        IN  IF SplitTable(hand[1].rank, d) THEN ret.action = "split"
            ELSE ret.action =
                    (IF CountsAceAs11(hand) THEN SoftTable(t, d, canDouble)
                     ELSE HardTable(t, d, canDouble, canSurrender, TRUE))

C5_Witness ==
    /\ pc = "strategy_done"
    /\ IsPairHand(hand) /\ canSplit
    /\ hand[1].rank = "9"
    /\ dealerUpCard.rank = "7"
    /\ ret.action = "stand"

(***************************************************************************)
(* C6: a hard hand not resolved by the pair rule gets the action of the    *)
(* hard table: stand on >= 17, on 13..16 against <= 6, on 12 against       *)
(* 4..6; double 11, 10 (dealer <= 9), 9 (dealer 3..6) if canDouble;        *)
(* surrender a two-card 16 against 9, 10, Ace and a two-card 15 against    *)
(* 10 if canSurrender; otherwise hit.                                      *)
(***************************************************************************)
C6_HardRule ==
    (pc = "strategy_done" /\ hand # <<>> /\ ~CountsAceAs11(hand) /\ ~PairRuleResolves) =>
        ret.action = HardTable(BestTotal(hand), UpCardValue(dealerUpCard),
                               canDouble, canSurrender, Len(hand) = 2)

C6_Witness ==
    /\ pc = "strategy_done"
    /\ Len(hand) = 3
    /\ ~CountsAceAs11(hand)
    /\ BestTotal(hand) = 16
    /\ UpCardValue(dealerUpCard) = 10
    /\ canSurrender
    /\ ret.action = "hit"

(***************************************************************************)
(* C7: every soft hand (its total counts an Ace as 11, whatever its        *)
(* number of cards or Aces) not resolved by the pair rule gets the action  *)
(* of the soft table: stand on >= 19; 18 double against 3..6, hit against  *)
(* >= 9, else stand; 17 double against 3..6; 15..16 double against 4..6;   *)
(* 13..14 double against 5..6 (doubles only if canDouble); otherwise hit.  *)
(***************************************************************************)
C7_SoftRule ==
    (pc = "strategy_done" /\ CountsAceAs11(hand) /\ ~PairRuleResolves) =>
        ret.action = SoftTable(BestTotal(hand), UpCardValue(dealerUpCard), canDouble)

(***************************************************************************)
(* Reference notions for the round resolver.                               *)
(***************************************************************************)
\* the call returns through the normal resolution loop: it is not a single
\* two-card player hand totalling 21 with naturals considered
NormalSettlement ==
    ~(/\ considerNaturalBlackjack
      /\ Len(playerHands) = 1
      /\ Len(playerHands[1]) = 2
      /\ BestTotal(playerHands[1]) = 21)

\* what an outcome pays: 2 x bet for a win, the bet for a push, 2.5 x bet
\* for a blackjack, nothing otherwise
PayoutOf(o) ==
    CASE o.result = "win" -> 2 * o.bet
      [] o.result = "push" -> o.bet
      [] o.result = "blackjack" -> (5 * o.bet) \div 2
      [] OTHER -> 0

RECURSIVE TotalOf(_)
TotalOf(q) == IF q = <<>> THEN 0 ELSE q[Len(q)] + TotalOf(SubSeq(q, 1, Len(q) - 1))

\* the dealer's starting hand: dealerHand[0..1]
DealerFirstTwo == SubSeq(dealerHand, 1, IF Len(dealerHand) < 2 THEN Len(dealerHand) ELSE 2)

\* the forced-draw rule on the hand the dealer holds
HeldHandDraws(h) ==
    \/ BestTotal(h) < 17
    \/ BestTotal(h) = 17 /\ dealerHitsSoft17 /\ CountsAceAs11(h)

(***************************************************************************)
(* C1: every player hand that reaches normal settlement is classified      *)
(* from its total p and the dealer's final total d, in this order:         *)
(* p > 21 bust, payout 0 (also when the dealer busts); d > 21 win,         *)
(* 2 x bet; p > d win, 2 x bet; p < d loss, 0; p = d push, 1 x bet.  So    *)
(* a non-bust hand's payout is 0, bet or 2 x bet, matching loss / push /   *)
(* win exactly.  d is the dealer total the call returns (dealerValue).     *)
(***************************************************************************)
C1_NormalSettlement ==
    (pc = "round_done" /\ NormalSettlement) =>
        /\ Len(ret.outcomes) = Len(playerHands)
        /\ \A i \in 1..Len(playerHands) :
              LET p == BestTotal(playerHands[i])
                  d == ret.dealerValue
                  o == ret.outcomes[i]
                  pay == ret.payouts[i]
              IN  /\ CASE p > 21 -> o.result = "bust" /\ pay = 0
                       [] p <= 21 /\ d > 21 -> o.result = "win" /\ pay = 2 * o.bet
                       [] p <= 21 /\ d <= 21 /\ p > d -> o.result = "win" /\ pay = 2 * o.bet
                       [] p <= 21 /\ d <= 21 /\ p < d -> o.result = "loss" /\ pay = 0
                       [] OTHER -> o.result = "push" /\ pay = o.bet
                  /\ o.result # "bust" =>
                        /\ o.result \in {"loss", "push", "win"}
                        /\ pay \in {0, o.bet, 2 * o.bet}
                        /\ (o.result = "loss" <=> pay = 0)
                        /\ (o.result = "push" <=> pay = o.bet)
                        /\ (o.result = "win" <=> pay = 2 * o.bet)

C1_Witness ==
    /\ pc = "round_done"
    /\ NormalSettlement
    /\ Len(playerHands) = 2
    /\ ret.dealerValue > 21
    /\ ret.outcomes[1].result = "bust"
    /\ ret.outcomes[2].result = "win"
    /\ ret.payouts = <<0, 2 * ret.outcomes[2].bet>>

(***************************************************************************)
(* C2: with dealerHand[0..1] the starting hand and dealerHand[2..] the     *)
(* supply, the dealer draws the next supplied card exactly when the hand   *)
(* it holds has total < 17, or total 17 while dealerHitsSoft17 and the     *)
(* hand is soft: no card is drawn onto a held hand that fails this, and    *)
(* the loop ends only on a held hand that fails it or on an empty supply.  *)
(***************************************************************************)
C2_DealerDraw ==
    [][pc = "dealer_loop" =>
          /\ (Len(dealerShown') > Len(dealerShown)) => HeldHandDraws(dealerShown)
          /\ (pc' = "settle") =>
                (~HeldHandDraws(dealerShown) \/ Len(dealerShown) >= Len(dealerHand))]_vars

(***************************************************************************)
(* C3: with considerNaturalBlackjack and exactly one player hand of two    *)
(* cards totalling 21, the only outcome is 'push' and the bankroll rises   *)
(* by the bet if the dealer's first two cards total 21, and otherwise      *)
(* 'blackjack' and the bankroll rises by 2.5 x bet, whatever cards follow  *)
(* the dealer's first two.  (Stated for a bankroll >= 0, where the clamp   *)
(* at zero plays no part.)                                                 *)
(***************************************************************************)
C3_Natural ==
    (/\ pc = "round_done"
     /\ bankroll >= 0
     /\ considerNaturalBlackjack
     /\ Len(playerHands) = 1
     /\ Len(playerHands[1]) = 2
     /\ BestTotal(playerHands[1]) = 21) =>
        /\ Len(ret.outcomes) = 1
        /\ IF Len(dealerHand) >= 2 /\ BestTotal(DealerFirstTwo) = 21
           THEN /\ ret.outcomes[1].result = "push"
                /\ ret.bankroll = bankroll + ret.outcomes[1].bet
           ELSE /\ ret.outcomes[1].result = "blackjack"
                /\ 2 * ret.bankroll = 2 * bankroll + 5 * ret.outcomes[1].bet

(***************************************************************************)
(* C4: on every return path the returned bankroll is max(0, bankroll +     *)
(* sum of the outcomes' payouts), hence never negative, for every input    *)
(* bankroll (a negative one included) and bets.                            *)
(***************************************************************************)
C4_BankrollClamp ==
    pc = "round_done" =>
        LET total == bankroll
                     + TotalOf([i \in 1..Len(ret.outcomes) |-> PayoutOf(ret.outcomes[i])])
        IN  /\ ret.bankroll = (IF total > 0 THEN total ELSE 0)
            /\ ret.bankroll >= 0

C4_Witness ==
    /\ pc = "round_done"
    /\ bankroll < 0
    /\ Len(ret.outcomes) = 2
    /\ ret.outcomes[1].result = "push"
    /\ bankroll + PayoutOf(ret.outcomes[1]) + PayoutOf(ret.outcomes[2]) < 0
    /\ ret.bankroll = 0

(***************************************************************************)
(* C10: on every return path the returned dealerValue is the hand total    *)
(* of the returned dealerFinalHand, and dealerFinalHand is the dealer's    *)
(* first two cards followed by exactly the supplied cards the dealer       *)
(* drew, in order.                                                         *)
(***************************************************************************)
C10_DealerFinalHand ==
    pc = "round_done" =>
        /\ ret.dealerValue = BestTotal(ret.dealerFinalHand)
        /\ ret.dealerFinalHand =
              SubSeq(dealerHand, 1,
                     IF Len(dealerHand) < dealerIdx THEN Len(dealerHand) ELSE dealerIdx)

(***************************************************************************)
(* C11: when the dealer's first two cards total 21 and the single two-card *)
(* player hand does not total 21, that hand's outcome is 'loss' with       *)
(* payout 0, whatever further cards are supplied after the dealer's first  *)
(* two.                                                                    *)
(***************************************************************************)
C11_DealerNaturalLoss ==
    (/\ pc = "round_done"
     /\ Len(dealerHand) >= 2
     /\ BestTotal(DealerFirstTwo) = 21
     /\ Len(playerHands) = 1
     /\ Len(playerHands[1]) = 2
     /\ BestTotal(playerHands[1]) # 21) =>
        /\ Len(ret.outcomes) = 1
        /\ ret.outcomes[1].result = "loss"
        /\ ret.payouts[1] = 0

(***************************************************************************)
(* C12: an outcome is 'blackjack', paid 2.5 x bet, only when               *)
(* considerNaturalBlackjack is true, there is exactly one player hand and  *)
(* it has exactly two cards totalling 21; every other hand that totals 21  *)
(* (a hand of a split round, a 21 of three or more cards, any 21 with the  *)
(* flag off) is settled as loss, push or win with a payout of at most      *)
(* 2 x bet.                                                                *)
(***************************************************************************)
InitialNatural(i) ==
    /\ considerNaturalBlackjack
    /\ Len(playerHands) = 1
    /\ Len(playerHands[i]) = 2
    /\ BestTotal(playerHands[i]) = 21

C12_BlackjackOnlyInitial ==
    pc = "round_done" =>
        \A i \in 1..Len(ret.outcomes) :
            /\ ret.outcomes[i].result = "blackjack" =>
                  /\ InitialNatural(i)
                  /\ 2 * ret.payouts[i] = 5 * ret.outcomes[i].bet
            /\ (i <= Len(playerHands) /\ BestTotal(playerHands[i]) = 21
                  /\ ~InitialNatural(i)) =>
                  /\ ret.outcomes[i].result \in {"loss", "push", "win"}
                  /\ ret.payouts[i] <= 2 * ret.outcomes[i].bet

\* a split round whose first hand is a two-card 21, flag on: paid as a win
C12_Witness ==
    /\ pc = "round_done"
    /\ considerNaturalBlackjack
    /\ Len(playerHands) = 2
    /\ Len(playerHands[1]) = 2
    /\ BestTotal(playerHands[1]) = 21
    /\ Len(playerHands[2]) = 3
    /\ BestTotal(playerHands[2]) = 21
    /\ ret.outcomes[1].result = "win"
    /\ ret.payouts[1] = 2 * ret.outcomes[1].bet
    /\ ret.outcomes[2].result = "win"

(***************************************************************************)
(* C13: the outcomes array has exactly one entry per player hand, in       *)
(* input order; entry i carries the bet handBets[i] when supplied and      *)
(* defaultBet otherwise, and its playerValue is the hand total of          *)
(* playerHands[i].                                                         *)
(***************************************************************************)
C13_OutcomesPerHand ==
    pc = "round_done" =>
        /\ Len(ret.outcomes) = Len(playerHands)
        /\ \A i \in 1..Len(playerHands) :
              /\ ret.outcomes[i].bet =
                    (IF i <= Len(handBets) THEN handBets[i] ELSE defaultBet)
              /\ ret.outcomes[i].playerValue = BestTotal(playerHands[i])

\* two hands, one bet supplied: the second hand falls back to defaultBet
C13_Witness ==
    /\ pc = "round_done"
    /\ Len(playerHands) = 2
    /\ Len(handBets) = 1
    /\ handBets[1] # defaultBet
    /\ ret.outcomes[1].bet = handBets[1]
    /\ ret.outcomes[2].bet = defaultBet
    /\ ret.outcomes[1].playerValue # ret.outcomes[2].playerValue

(***************************************************************************)
(* Reference notions for the decision recorder.                            *)
(***************************************************************************)
ActionNames == {"hit", "stand", "double", "split", "surrender"}

\* a scenario's count, 0 while the scenario has no entry
CountOf(stats, k) == IF k \in DOMAIN stats THEN stats[k].count ELSE 0

CorrectOf(stats, k) == IF k \in DOMAIN stats THEN stats[k].correctDecisions ELSE 0

\* a scenario's count of one action, 0 while the action was never taken
TakenOf(stats, k, a) ==
    IF k \in DOMAIN stats /\ a \in DOMAIN stats[k].actions THEN stats[k].actions[a] ELSE 0

SumTaken(stats, k) ==
    TakenOf(stats, k, "hit") + TakenOf(stats, k, "stand") + TakenOf(stats, k, "double")
    + TakenOf(stats, k, "split") + TakenOf(stats, k, "surrender")

\* the step is one recordDecision call that recorded the decision d
RecordsOne(d) ==
    /\ decisionHistory' = Append(decisionHistory, d)
    /\ DOMAIN scenarioStats' = DOMAIN scenarioStats \cup {d.scenarioKey}
    /\ \A k \in DOMAIN scenarioStats \ {d.scenarioKey} : scenarioStats'[k] = scenarioStats[k]
    /\ CountOf(scenarioStats', d.scenarioKey) = CountOf(scenarioStats, d.scenarioKey) + 1
    /\ \A a \in ActionNames :
          TakenOf(scenarioStats', d.scenarioKey, a) =
              TakenOf(scenarioStats, d.scenarioKey, a) + (IF a = d.action THEN 1 ELSE 0)
    /\ DOMAIN scenarioStats'[d.scenarioKey].actions \subseteq ActionNames
    /\ CorrectOf(scenarioStats', d.scenarioKey) =
          CorrectOf(scenarioStats, d.scenarioKey)
          + (IF d.action = getOptimalAction(d.playerHand, d.dealerUpCard, TRUE, TRUE, TRUE)
             THEN 1 ELSE 0)

\* the step is the explicit reset
ResetsStats == decisionHistory' = <<>> /\ scenarioStats' = <<>>

(***************************************************************************)
(* C14: each recordDecision call with a non-empty hand and a non-null      *)
(* up-card raises exactly one scenario's count by 1, that scenario's       *)
(* actions[action] by 1, and its correctDecisions by 1 exactly when the    *)
(* action is the optimal action computed for that call; every other        *)
(* scenario entry is unchanged.  So in every reachable state each          *)
(* scenario has count = sum of its actions counts and correctDecisions <=  *)
(* count, and no count decreases except through the explicit reset.        *)
(***************************************************************************)
C14_RecordDecision ==
    /\ [](\A k \in DOMAIN scenarioStats :
              /\ scenarioStats[k].count = SumTaken(scenarioStats, k)
              /\ scenarioStats[k].correctDecisions <= scenarioStats[k].count)
    /\ [][\/ UNCHANGED <<decisionHistory, scenarioStats>>
           \/ ResetsStats
           \/ /\ Len(decisionHistory') = Len(decisionHistory) + 1
              /\ RecordsOne(decisionHistory'[Len(decisionHistory')])]_vars

\* one scenario recorded twice, with two different actions of which one
\* was the optimal one
C14_Witness ==
    \E k \in DOMAIN scenarioStats :
        /\ scenarioStats[k].count = 2
        /\ scenarioStats[k].correctDecisions = 1
        /\ Cardinality(DOMAIN scenarioStats[k].actions) = 2
        /\ Cardinality(DOMAIN scenarioStats) >= 2

(***************************************************************************)
(* C15: for every player action the hand handed to recordDecision is the   *)
(* acting hand as it stood before the action; a split is recorded with     *)
(* the two-card pair and filed under pair_<rank>_vs_<dealer rank>.         *)
(***************************************************************************)
C15_RecordedHand ==
    [][Len(decisionHistory') = Len(decisionHistory) + 1 =>
          LET d == decisionHistory'[Len(decisionHistory')]
          IN  /\ d.playerHand = currentHand
              /\ d.action = "split" =>
                    /\ Len(d.playerHand) = 2
                    /\ d.scenarioKey = "pair_" \o currentHand[1].rank \o "_vs_"
                                        \o dealerHand[1].rank]_vars

(***************************************************************************)
(* C16: the scenario key of a decision depends only on the hand's shape    *)
(* (pair, soft, hard), its pair rank or total, and the dealer up-card's    *)
(* rank: two decisions of the same shape, rank or total and up-card rank   *)
(* get the same key ([10,6] and [7,9] against a 10), and hands of          *)
(* different shape or total get different keys.                            *)
(***************************************************************************)
ShapeOf(h) ==
    IF IsPairHand(h) THEN "pair" ELSE IF CountsAceAs11(h) THEN "soft" ELSE "hard"

SameScenario(d, e) ==
    /\ ShapeOf(d.playerHand) = ShapeOf(e.playerHand)
    /\ IF IsPairHand(d.playerHand)
       THEN d.playerHand[1].rank = e.playerHand[1].rank
       ELSE BestTotal(d.playerHand) = BestTotal(e.playerHand)
    /\ d.dealerUpCard.rank = e.dealerUpCard.rank

C16_ScenarioKey ==
    \A i, j \in 1..Len(decisionHistory) :
        (decisionHistory[i].scenarioKey = decisionHistory[j].scenarioKey)
            <=> SameScenario(decisionHistory[i], decisionHistory[j])

(***************************************************************************)
(* C17: while a round is being played handBets has one entry per player    *)
(* hand; a double on hand i sets handBets[i] to twice its previous value,  *)
(* takes exactly that previous value from the bankroll and leaves the      *)
(* other bets unchanged; a split appends exactly one new bet equal to the  *)
(* bet of the hand being split, takes exactly that amount from the         *)
(* bankroll and leaves the existing bets unchanged.                        *)
(***************************************************************************)
\* the step is a double: it is recorded as one, or it changes a bet in place
DoubleStep ==
    /\ gameState = "playing"
    /\ \/ /\ Len(decisionHistory') = Len(decisionHistory) + 1
          /\ decisionHistory'[Len(decisionHistory')].action = "double"
       \/ /\ Len(handBets') = Len(handBets)
          /\ handBets' # handBets

\* the step is a split: the round has one more hand
SplitStep == gameState = "playing" /\ Len(playerHands') > Len(playerHands)

\* what a double does to the bets and the bankroll
DoublesBet ==
    /\ handBets' = [handBets EXCEPT ![currentHandIndex + 1] = 2 * @]
    /\ bankroll' = bankroll - handBets[currentHandIndex + 1]

\* what a split does to the bets and the bankroll
AppendsBet ==
    /\ handBets' = Append(handBets, handBets[currentHandIndex + 1])
    /\ bankroll' = bankroll - handBets[currentHandIndex + 1]

C17_HandBets ==
    /\ [](gameState = "playing" => Len(handBets) = Len(playerHands))
    /\ [][(DoubleStep => DoublesBet) /\ (SplitStep => AppendsBet)]_vars

(***************************************************************************)
(* C18: whenever a round is over (gameState is 'finished' and no timer is  *)
(* pending), every player hand of the round has been settled exactly once  *)
(* (by the natural payout, by the surrender refund, or by one run of       *)
(* finishHand): no hand is paid twice and none is left unsettled, for      *)
(* every interleaving of the button clicks with the two timers.            *)
(***************************************************************************)
\* how many times hand i (counted from 0) of round r has been settled
SettledTimes(r, i) ==
    Cardinality({n \in 1..Len(settlements) :
                    settlements[n].round = r /\ settlements[n].hand = i})

C18_SettledOnce ==
    (gameState = "finished" /\ timers = <<>>) =>
        \A i \in 0..(Len(playerHands) - 1) : SettledTimes(roundNo, i) = 1

(***************************************************************************)
(* C19: a surrender returns exactly half of the surrendered hand's bet to  *)
(* the bankroll, for every permitted bet, the odd bets $5 and $25          *)
(* included.  (Money is in half dollars: twice the refund is the bet.)     *)
(***************************************************************************)
\* the step is a surrender: it is recorded as one
SurrenderStep ==
    /\ Len(decisionHistory') = Len(decisionHistory) + 1
    /\ decisionHistory'[Len(decisionHistory')].action = "surrender"

C19_SurrenderRefund ==
    [][SurrenderStep => 2 * (bankroll' - bankroll) = handBets[currentHandIndex + 1]]_vars

(***************************************************************************)
(* C20: missing or empty input never raises and degrades to a safe         *)
(* default: getOptimalAction returns "hit" for a null or empty hand or a   *)
(* null up-card; the empty hand has total 0 and is neither soft, nor a     *)
(* pair, nor a natural; recordDecision on such input leaves                *)
(* decisionHistory and scenarioStats unchanged; resolveBlackjackRound      *)
(* runs to its return and returns a result for an empty dealerHand or an   *)
(* empty playerHands list.                                                 *)
(***************************************************************************)
MalformedDefaults ==
    /\ pc = "probe_action" => ret.action = "hit"
    /\ pc = "probe_value" =>
          /\ ret.calculateHandValue = 0
          /\ ret.calcValue = 0
          /\ ~ret.isSoftHand
          /\ ~ret.isSoft
          /\ ~ret.canSplit
          /\ ~ret.isBlackjack
    /\ pc = "round_done" =>
          /\ ret.kind = "round"
          /\ Len(ret.outcomes) = Len(playerHands)
          /\ ret.bankroll >= 0
    /\ pc \in {"probe", "call", "dealer_loop", "settle"} => ENABLED NextMalformed

RecordsNothing == pc' = "probe_recorded" => UNCHANGED <<decisionHistory, scenarioStats>>

C20_MalformedInput == []MalformedDefaults /\ [][RecordsNothing]_vars

C20_Witness ==
    /\ pc = "probe_recorded"
    /\ hand = <<>>
    /\ dealerUpCard # nullCard
    /\ decisionHistory # <<>>

(***************************************************************************)
(* C21: whenever finishHand settles a player hand that has not busted, the *)
(* dealer total it compares against is the total of a dealer hand that has *)
(* completed the forced draw (the draw condition is false for it, or the   *)
(* deck is empty), both when finishHand runs from dealerPlay's timer and   *)
(* when hit calls it on the bust of the last hand.                         *)
(***************************************************************************)
\* the step is the timer of dealerPlay running finishHand
FinishByTimer == timers # <<>> /\ timers[1].kind = "dealer" /\ timers' = Tail(timers)

\* the step is a hit whose bust runs finishHand
FinishByBust ==
    /\ gameState = "playing"
    /\ gameState' = "finished"
    /\ playerHands' # playerHands

\* finishHand, run on the state c, finds a hand of at most 21
SettlesUnbusted(c) ==
    \E i \in 1..Len(c.playerHands) : calculateHandValue(c.playerHands[i]) <= 21

\* the forced draw is complete for the dealer hand dh on a deck of n cards
DrawCompleted(dh, n) == ~dealerPlayCondition(dh) \/ n = 0

TimerComparesDrawnHand ==
    (FinishByTimer /\ SettlesUnbusted(timers[1])) =>
        DrawCompleted(timers[1].dealerHand, deck)

BustComparesDrawnHand ==
    (FinishByBust /\ SettlesUnbusted(closure)) => DrawCompleted(closure.dealerHand, deck')

C21_DealerDrawCompleted == [][TimerComparesDrawnHand /\ BustComparesDrawnHand]_vars

(***************************************************************************)
(* C22: finishHand settles each player hand on the cards and the bet the   *)
(* hand holds after the player's final action on it: a doubled hand on its *)
(* total with the card of the double and at twice the original bet, a hand *)
(* that busts on a hit as a loss with payout 0.                            *)
(***************************************************************************)
\* the state c with the player hands and bets replaced
WithHands(c, hands, bets) == [c EXCEPT !.playerHands = hands, !.handBets = bets]

TimerSettlesFinalHands ==
    FinishByTimer =>
        finishAll(timers[1]) = finishAll(WithHands(timers[1], playerHands, handBets))

BustSettlesFinalHands ==
    FinishByBust => finishAll(closure) = finishAll(WithHands(closure, playerHands', handBets'))

C22_FinalHandsSettled == [][TimerSettlesFinalHands /\ BustSettlesFinalHands]_vars

(***************************************************************************)
(* C23: the optimal action recordDecision compares a decision against is   *)
(* an action the game allowed for that hand at that moment: never double   *)
(* or surrender for a hand of three or more cards, never surrender when    *)
(* surrenderAllowed is false, never double or split when the bankroll is   *)
(* smaller than the current bet.                                           *)
(***************************************************************************)
\* the step records a decision
RecordStep == Len(decisionHistory') = Len(decisionHistory) + 1

\* the decision the step records
Recorded == decisionHistory'[Len(decisionHistory')]

OptimalWasAllowed ==
    /\ Len(Recorded.playerHand) >= 3 => Recorded.optimalAction \notin {"double", "surrender"}
    /\ ~surrenderAllowed => Recorded.optimalAction # "surrender"
    /\ bankroll < currentBet => Recorded.optimalAction \notin {"double", "split"}

C23_OptimalAllowed == [][RecordStep => OptimalWasAllowed]_vars

(***************************************************************************)
(* C26: getOptimalAction only returns an action its capabilities permit:   *)
(* split only when canSplit is true and the hand is two cards of one rank, *)
(* double only when canDouble is true, surrender only when canSurrender is *)
(* true and the hand has exactly two cards; with all three capabilities    *)
(* false it returns only hit or stand.                                     *)
(***************************************************************************)
C26_ActionPermitted ==
    pc = "strategy_done" =>
        /\ ret.action = "split" => canSplit /\ IsPairHand(hand)
        /\ ret.action = "double" => canDouble
        /\ ret.action = "surrender" => canSurrender /\ Len(hand) = 2
        /\ (~canDouble /\ ~canSplit /\ ~canSurrender) => ret.action \in {"hit", "stand"}

\* a soft 18 against a 6 with doubling not permitted: the answer is stand
C26_Witness ==
    /\ pc = "strategy_done"
    /\ hand = <<Card("A"), Card("7")>>
    /\ dealerUpCard = Card("6")
    /\ ~canDouble
    /\ canSplit
    /\ canSurrender
    /\ ret.action = "stand"

(***************************************************************************)
(* C24: for every row of the strategy table and every dealer column, the   *)
(* action the table computes from its synthetic two-card hand equals       *)
(* getOptimalAction, with default capabilities, of every real two-card     *)
(* hand that recordDecision files under the scenario key of that cell.     *)
(***************************************************************************)
C24_TableMatchesRecorded ==
    pc = "table_done" =>
        \A i \in 1..Len(decisionHistory) :
            LET d == decisionHistory[i]
            IN  (Len(d.playerHand) = 2 /\ d.scenarioKey \in DOMAIN ret.optimalAction) =>
                    ret.optimalAction[d.scenarioKey] =
                        getOptimalAction(d.playerHand, d.dealerUpCard, TRUE, TRUE, TRUE)

\* a 9 and a 7 against a 10 are filed under hard 16 against 10: surrender
C24_Witness ==
    /\ pc = "table_done"
    /\ Len(decisionHistory) = 1
    /\ decisionHistory[1].playerHand = <<Card("9"), Card("7")>>
    /\ decisionHistory[1].scenarioKey = "hard_16_vs_10"
    /\ ret.optimalAction["hard_16_vs_10"] = "surrender"

(***************************************************************************)
(* C25: every hand created by a split holds exactly two cards at the       *)
(* moment it becomes the hand the player acts on: the hand that keeps the  *)
(* first card right after the split, the new hand with the second card by  *)
(* the time currentHandIndex reaches it.                                   *)
(***************************************************************************)
\* the step moves the player on to the next hand
AdvanceStep == currentHandIndex' > currentHandIndex

SplitHandsComplete ==
    /\ SplitStep => Len(playerHands'[currentHandIndex' + 1]) = 2
    /\ AdvanceStep => Len(playerHands'[currentHandIndex' + 1]) = 2

C25_SplitHandsTwoCards == [][SplitHandsComplete]_vars

(***************************************************************************)
(* C27: in every reachable state of a round, the cards in the player       *)
(* hands, the dealer hand and the remaining deck are pairwise distinct     *)
(* cards of one deck: every card dealt is removed from the deck exactly    *)
(* once and is never dealt to two places.                                  *)
(***************************************************************************)
RECURSIVE Flatten(_)
\* the cards of a sequence of hands, in order
Flatten(hs) == IF hs = <<>> THEN <<>> ELSE hs[1] \o Flatten(Tail(hs))

\* the cards on the table
CardsInPlay == Flatten(playerHands) \o dealerHand

\* the cards that have left the deck
CardsDealt == {shuffled[i] : i \in 1..(DeckSize - deck)}

C27_CardsDistinct ==
    roundNo >= 1 =>
        /\ Cardinality({CardsInPlay[i] : i \in 1..Len(CardsInPlay)}) = Len(CardsInPlay)
        /\ {CardsInPlay[i] : i \in 1..Len(CardsInPlay)} = CardsDealt

(***************************************************************************)
(* C28: for every scenario entry the stored optimalAction equals the       *)
(* optimal action computed at every decision recorded under its key, so    *)
(* correctDecisions equals actions[optimalAction] (0 when that action was  *)
(* never taken), also for keys that receive two-card and longer hands.     *)
(***************************************************************************)
C28_StoredOptimalAction ==
    \A k \in DOMAIN scenarioStats :
        /\ \A i \in 1..Len(decisionHistory) :
              decisionHistory[i].scenarioKey = k =>
                  decisionHistory[i].optimalAction = scenarioStats[k].optimalAction
        /\ CorrectOf(scenarioStats, k) = TakenOf(scenarioStats, k, scenarioStats[k].optimalAction)

(***************************************************************************)
(* C29: given the same two starting dealer cards, the same ordered further *)
(* cards and the same dealerHitsSoft17 setting, dealerPlay (drawing from   *)
(* the deck) and resolveBlackjackRound (drawing from dealerHand[2..]) end  *)
(* with the same final dealer hand and the same dealer total.              *)
(***************************************************************************)
C29_DealerLoopsAgree ==
    (pc = "round_done" /\ Len(dealerHand) >= 2) =>
        LET final == dealerPlayFrom(SubSeq(dealerHand, 1, 2),
                                    SubSeq(dealerHand, 3, Len(dealerHand)))
        IN  /\ ret.dealerFinalHand = final
            /\ ret.dealerValue = calculateHandValue(final)

(***************************************************************************)
(* C30: in interactive play the bankroll is never negative: starting from  *)
(* a non-negative bankroll, no sequence of deal, hit, stand, double,       *)
(* split, surrender, settlement and bet changes takes more from the        *)
(* bankroll than it holds.                                                 *)
(***************************************************************************)
C30_BankrollNonNegative == bankroll >= 0

=============================================================================
